---------------------------- MODULE Spec2Model ----------------------------
(***************************************************************************)
(* A model of conn2res/reservoir.py: the memristive reservoir classes      *)
(* MemristiveReservoir and MSSNetwork, the module-level helpers mask,      *)
(* check_symmetric and make_symmetric, and EchoStateNetwork.simulate.      *)
(*                                                                         *)
(* Matrices are functions M[i][j] over Nodes.  numpy floats are modelled   *)
(* as exact rationals <<numerator, denominator>>; a denominator of 0 is a  *)
(* non-finite float (nan, inf).  Exceptions are recorded in ret.outcome.   *)
(*                                                                         *)
(* Six specifications exercise the code:                                   *)
(*   SpecSetW   setW applied to raw connectivity matrices                  *)
(*   SpecSolve  solveV_I applied to conductances, partitions and voltages  *)
(*   Spec       the life of one MSSNetwork object: construction, writes    *)
(*              of Nb and G, solveV_I, getV, dG with a G argument,         *)
(*              iterate and simulate                                       *)
(*   SpecDG     getV followed by dG without a G argument, and writes of    *)
(*              Nb, on a constructed MSSNetwork                            *)
(*   SpecRng    two MSSNetwork objects drawing from numpy's global stream  *)
(*   SpecESN    EchoStateNetwork.simulate                                  *)
(***************************************************************************)
EXTENDS Integers, Sequences, FiniteSets, TLC

VARIABLES
    pc,     \* "new" before the call / construction, "ready" or "done" after
    w,      \* the raw connectivity argument of setW / __init__
    W,      \* self._W
    I,      \* self._I   (sequence of node indexes)
    E,      \* self._E
    GR,     \* self._GR
    vA, vB, tc, NMSS, Woff, Won,   \* MSSNetwork property matrices
    Ga, Gb, \* self._Ga, self._Gb
    Nb,     \* self._Nb
    G,      \* self._G  (the cached conductance), or the G argument of solveV_I
    V_E,    \* external voltages handed to solveV_I
    V_GR,   \* grounded voltages handed to solveV_I: NoArg or Arg(vector)
    ret,    \* what the last call or assignment returned or raised
    rng,    \* position of numpy's global random stream (np.random)
    insts,  \* per MSSNetwork object: the stream values it has consumed
    w_ih,   \* EchoStateNetwork.w_ih
    w_hh,   \* EchoStateNetwork.w_hh
    activation_function,  \* EchoStateNetwork.activation_function (its name)
    ext_input,            \* the ext_input argument of simulate
    ic,     \* the ic argument of simulate: NoArg or Arg(vector)
    state   \* EchoStateNetwork._state

rngvars == <<rng, insts>>

esnvars == <<w_ih, w_hh, activation_function, ext_input, ic, state>>

vars == <<pc, w, W, I, E, GR, vA, vB, tc, NMSS, Woff, Won, Ga, Gb, Nb, G,
          V_E, V_GR, ret, rng, insts, w_ih, w_hh, activation_function,
          ext_input, ic, state>>

\* Python's None, and the value of a field that does not exist yet.
None == "None"

\* An optional argument: NoArg when it is left at its default None, and
\* Arg(x) when x is passed.
NoArg == <<>>

Arg(x) == <<x>>

(***************************************************************************)
(* Bounds of the model.                                                    *)
(***************************************************************************)
\* The network has three nodes: indexes 0..2, three undirected edges.
Nodes == {0, 1, 2}
\* Raw connectivity entries are drawn from 0..MaxRaw.
MaxRaw == 2
\* solveV_I: edge conductances are drawn from 0..MaxG (0: no edge).
MaxG == 2
\* solveV_I: boundary voltages are drawn from -MaxV..MaxV.
MaxV == 1
\* A normal draw lies within Noise of its mean.
Noise == 1
\* Matrices written to Nb have entries from -3..MaxWrite+2.
MaxWrite == 2
\* iterate is called with iters in 0..MaxIters, or with the default.
MaxIters == 2
\* simulate is given 0..MaxT timesteps.
MaxT == 2
\* dG calls per MSSNetwork object in SpecRng.
MaxCalls == 3
\* The largest time step dt handed to dG, in units in which tc is 2..4.
MaxDt == 3
\* EchoStateNetwork.simulate is given 0..MaxSteps input rows.
MaxSteps == 3

(***************************************************************************)
(* Floats as exact rationals.                                              *)
(***************************************************************************)
Abs(x) == IF x < 0 THEN -x ELSE x

Sign(x) == IF x < 0 THEN -1 ELSE IF x = 0 THEN 0 ELSE 1

RECURSIVE GCD(_, _)
GCD(a, b) == IF b = 0 THEN a ELSE GCD(b, a % b)

\* n/d in lowest terms with a positive denominator; x/0 is nan (0/0) or
\* +-inf, kept as <<sign, 0>>.
Rat(n, d) ==
    IF d = 0 THEN <<Sign(n), 0>>
    ELSE LET g == GCD(Abs(n), Abs(d))
             s == IF d < 0 THEN -1 ELSE 1
         IN  <<(s * n) \div g, (s * d) \div g>>

R(n) == <<n, 1>>

NaN == <<0, 0>>

IsFinite(x) == x[2] # 0

\* Arithmetic; a non-finite operand gives nan (inf - inf, 0 * inf), which
\* is all the model needs of them.
RAdd(x, y) ==
    IF IsFinite(x) /\ IsFinite(y)
    THEN Rat(x[1] * y[2] + y[1] * x[2], x[2] * y[2]) ELSE NaN

RSub(x, y) ==
    IF IsFinite(x) /\ IsFinite(y)
    THEN Rat(x[1] * y[2] - y[1] * x[2], x[2] * y[2]) ELSE NaN

RMul(x, y) ==
    IF IsFinite(x) /\ IsFinite(y)
    THEN Rat(x[1] * y[1], x[2] * y[2]) ELSE NaN

\* np.divide: x/0 is nan or inf (a warning, no exception).
RDiv(x, y) ==
    IF IsFinite(x) /\ IsFinite(y)
    THEN Rat(x[1] * y[2], x[2] * y[1]) ELSE NaN

\* x < y on floats: False whenever an operand is nan.
RLess(x, y) == IsFinite(x) /\ IsFinite(y) /\ x[1] * y[2] < y[1] * x[2]

RZero == R(0)

(***************************************************************************)
(* Matrices.                                                               *)
(***************************************************************************)
\* np.allclose(a, a.T, atol=tol) on the integer 0/1 matrices it is called
\* with: two different integers below 10^5 are never close.
check_symmetric(a) == \A i, j \in Nodes : a[i][j] = a[j][i]

\* np.tril(a,-1) + np.tril(a,-1).T, resp. np.triu(a,1) + np.triu(a,1).T;
\* zero is the zero of the entries (0 or RZero).
make_symmetric(a, copy_lower, zero) ==
    [i \in Nodes |-> [j \in Nodes |->
        IF i = j THEN zero
        ELSE IF copy_lower
             THEN (IF i > j THEN a[i][j] ELSE a[j][i])
             ELSE (IF i < j THEN a[i][j] ELSE a[j][i])]]

(***************************************************************************)
(* MemristiveReservoir.setW                                                *)
(***************************************************************************)
\* w.astype(bool).astype(int): any nonzero entry becomes 1.
astype_bool_int(a) == [i \in Nodes |-> [j \in Nodes |->
                          IF a[i][j] # 0 THEN 1 ELSE 0]]

\* np.fill_diagonal(a, 0)
fill_diagonal(a, v) == [i \in Nodes |-> [j \in Nodes |->
                          IF i = j THEN v ELSE a[i][j]]]

\* The upper triangle alone, without the np.logical_or with the lower one.
upper_only(a) == [i \in Nodes |-> [j \in Nodes |->
                    IF i < j /\ a[i][j] # 0 THEN 1 ELSE 0]]

\* np.logical_or(upper_diag, lower_diag).astype(int), written into the
\* upper triangle of a zero matrix.
upper_or(a) == [i \in Nodes |-> [j \in Nodes |->
                  IF i < j /\ (a[i][j] # 0 \/ a[j][i] # 0) THEN 1 ELSE 0]]

\* setW without its np.fill_diagonal(w, 0).
setW_no_diag(a) ==
    LET b == astype_bool_int(a)
    IN  IF ~check_symmetric(b)
        THEN make_symmetric(upper_or(b), FALSE, 0)
        ELSE b

setW(a) ==
    LET b == fill_diagonal(astype_bool_int(a), 0)
    IN  IF ~check_symmetric(b)
        THEN make_symmetric(upper_or(b), FALSE, 0)
        ELSE b

\* The raw matrices setW is applied to: every square matrix over 0..MaxRaw.
RawMatrices == [Nodes -> [Nodes -> 0..MaxRaw]]

\* No reservoir object exists.
NoNet ==
    /\ W = None /\ I = None /\ E = None /\ GR = None
    /\ vA = None /\ vB = None /\ tc = None /\ NMSS = None
    /\ Woff = None /\ Won = None /\ Ga = None /\ Gb = None /\ Nb = None

\* No random stream is followed.
NoRng == rng = None /\ insts = None

\* No EchoStateNetwork object exists.
NoESN ==
    /\ w_ih = None /\ w_hh = None /\ activation_function = None
    /\ ext_input = None /\ ic = None /\ state = None

InitSetW ==
    /\ pc = "new"
    /\ w \in RawMatrices
    /\ NoNet
    /\ G = None /\ V_E = None /\ V_GR = None
    /\ ret = None
    /\ NoRng /\ NoESN

CallSetW ==
    /\ pc = "new"
    /\ pc' = "done"
    /\ W' = setW(w)
    /\ ret' = [op |-> "setW", outcome |-> "returned"]
    /\ UNCHANGED <<w, I, E, GR, vA, vB, tc, NMSS, Woff, Won, Ga, Gb, Nb, G,
                   V_E, V_GR>>
    /\ UNCHANGED <<rngvars, esnvars>>

NextSetW == CallSetW

SpecSetW == InitSetW /\ [][NextSetW]_vars

(***************************************************************************)
(* C1: for every square raw matrix, setW's result is binary, symmetric and *)
(* has a zero diagonal.                                                    *)
(***************************************************************************)
C1_MaskBinarySymmetricZeroDiag ==
    pc = "done" =>
        /\ \A i, j \in Nodes : W[i][j] \in {0, 1}
        /\ \A i, j \in Nodes : W[i][j] = W[j][i]
        /\ \A i \in Nodes : W[i][i] = 0

\* A directed, weighted input with a self-loop went through setW.
C1_Witness ==
    /\ pc = "done"
    /\ w[0][0] # 0
    /\ w[0][1] = 2 /\ w[1][0] = 0
    /\ W[0][1] = 1 /\ W[1][0] = 1

(***************************************************************************)
(* C18: for a raw matrix that is not symmetric, setW returns the           *)
(* undirected closure: off the diagonal W[i,j] = 1 exactly when w[i,j] or  *)
(* w[j,i] is nonzero, and 0 otherwise.                                     *)
(***************************************************************************)
C18_UndirectedClosure ==
    (pc = "done" /\ \E i, j \in Nodes : w[i][j] # w[j][i]) =>
        \A i, j \in Nodes :
            i # j => W[i][j] = (IF w[i][j] # 0 \/ w[j][i] # 0 THEN 1 ELSE 0)

\* setW ran on a matrix with an edge in the lower triangle only, an edge in
\* the upper triangle only and a pair with no edge.
C18_Witness ==
    /\ pc = "done"
    /\ w[1][0] # 0 /\ w[0][1] = 0 /\ W[0][1] = 1 /\ W[1][0] = 1
    /\ w[0][2] # 0 /\ w[2][0] = 0 /\ W[0][2] = 1 /\ W[2][0] = 1
    /\ w[1][2] = 0 /\ w[2][1] = 0 /\ W[1][2] = 0 /\ W[2][1] = 0

(***************************************************************************)
(* MemristiveReservoir.solveV_I                                            *)
(***************************************************************************)
RECURSIVE RSum(_, _)
\* f[1] + ... + f[n]
RSum(f, n) == IF n = 0 THEN RZero ELSE RAdd(RSum(f, n - 1), f[n])

\* The nodes in index order, for sums along an axis.
NodeSeq == CHOOSE s \in [1..Cardinality(Nodes) -> Nodes] :
               \A a, b \in 1..Cardinality(Nodes) : a < b => s[a] < s[b]

\* np.sum(g, axis=1)[i]
RowSum(g, i) == RSum([k \in 1..Len(NodeSeq) |-> g[i][NodeSeq[k]]], Len(NodeSeq))

\* N = diag(np.sum(G, axis=1)); A = N - G
Admittance(g) ==
    [i \in Nodes |-> [j \in Nodes |->
        RSub(IF i = j THEN RowSum(g, i) ELSE RZero, g[i][j])]]

\* a[np.ix_(rows, cols)]
Ix(a, rows, cols) ==
    [r \in 1..Len(rows) |-> [c \in 1..Len(cols) |-> a[rows[r]][cols[c]]]]

\* np.dot(m, v) for a matrix m of len(v) columns
Dot(m, v) ==
    [r \in 1..Len(m) |-> RSum([c \in 1..Len(v) |-> RMul(m[r][c], v[c])], Len(v))]

\* m without row r and column c
Minor(m, r, c) ==
    [a \in 1..(Len(m) - 1) |-> [b \in 1..(Len(m) - 1) |->
        m[IF a < r THEN a ELSE a + 1][IF b < c THEN b ELSE b + 1]]]

RECURSIVE Det(_)
\* The determinant, by expansion along the first row.
Det(m) ==
    IF Len(m) = 0 THEN R(1)
    ELSE IF Len(m) = 1 THEN m[1][1]
    ELSE RSum([c \in 1..Len(m) |->
                  RMul(RMul(R(IF c % 2 = 1 THEN 1 ELSE -1), m[1][c]),
                       Det(Minor(m, 1, c)))], Len(m))

\* inv raises LinAlgError("Singular matrix") exactly when the factorisation
\* meets a zero pivot: in exact arithmetic, when the determinant is zero.
inv_never_raises(m) == FALSE

inv_raises(m) == Det(m) = RZero

\* numpy.linalg.inv(m) of a non-singular m: adjugate over determinant.
inv(m) ==
    [r \in 1..Len(m) |-> [c \in 1..Len(m) |->
        RDiv(RMul(R(IF (r + c) % 2 = 0 THEN 1 ELSE -1), Det(Minor(m, c, r))),
             Det(m))]]

\* np.zeros((n))
zeros(n) == [k \in 1..n |-> RZero]

VecAdd(x, y) == [k \in 1..Len(x) |-> RAdd(x[k], y[k])]

\* H_I without the grounded nodes' term.
H_I_no_ground(g, i_nodes, e_nodes, gr_nodes, v_e, v_gr) ==
    Dot(Ix(g, i_nodes, e_nodes), v_e)

\* H_I = H_IE + H_IGR
H_I(g, i_nodes, e_nodes, gr_nodes, v_e, v_gr) ==
    VecAdd(Dot(Ix(g, i_nodes, e_nodes), v_e),
           Dot(Ix(g, i_nodes, gr_nodes), v_gr))

\* solveV_I(V_E, V_GR, G) on a reservoir with the index sets i_nodes,
\* e_nodes, gr_nodes: what it returns, or the exception inv raises.
solveV_I(g, i_nodes, e_nodes, gr_nodes, v_e, v_gr_arg) ==
    LET v_gr == IF v_gr_arg = NoArg THEN zeros(Len(gr_nodes)) ELSE v_gr_arg[1]
        A_II == Ix(Admittance(g), i_nodes, i_nodes)
    IN  IF inv_raises(A_II)
        THEN [op |-> "solveV_I", outcome |-> "LinAlgError", value |-> None]
        ELSE [op |-> "solveV_I", outcome |-> "returned",
              value |-> Dot(inv(A_II),
                            H_I(g, i_nodes, e_nodes, gr_nodes, v_e, v_gr))]

\* Every ordering of the set S as an index array.
Orderings(S) ==
    {s \in [1..Cardinality(S) -> S] :
        \A a, b \in 1..Cardinality(S) : a # b => s[a] # s[b]}

RoleSet(a, role) == {n \in Nodes : a[n] = role}

\* Index arrays that split the nodes into internal, external and grounded
\* ones, with at least one internal and one external node.
Partitions ==
    UNION {
        {<<si, se, sg>> : si \in Orderings(RoleSet(a, "I")),
                          se \in Orderings(RoleSet(a, "E")),
                          sg \in Orderings(RoleSet(a, "GR"))} :
        a \in {b \in [Nodes -> {"I", "E", "GR"}] :
                  RoleSet(b, "I") # {} /\ RoleSet(b, "E") # {}}}

\* Conductance matrices as MSSNetwork holds them: symmetric, zero diagonal,
\* a value in 0..MaxG on every pair of nodes.
Conductances ==
    {[i \in Nodes |-> [j \in Nodes |-> IF i = j THEN RZero ELSE R(u[i][j])]] :
        u \in {x \in [Nodes -> [Nodes -> 0..MaxG]] :
                  \A i, j \in Nodes : x[i][j] = x[j][i] /\ x[i][i] = 0}}

Volts == {R(v) : v \in (-MaxV)..MaxV}

InitSolve ==
    /\ pc = "new"
    /\ w = None /\ W = None
    /\ \E p \in Partitions : I = p[1] /\ E = p[2] /\ GR = p[3]
    /\ vA = None /\ vB = None /\ tc = None /\ NMSS = None
    /\ Woff = None /\ Won = None /\ Ga = None /\ Gb = None /\ Nb = None
    /\ G \in Conductances
    /\ V_E \in [1..Len(E) -> Volts]
    /\ V_GR \in {NoArg} \cup {Arg(v) : v \in [1..Len(GR) -> Volts]}
    /\ ret = None
    /\ NoRng /\ NoESN

CallSolveV_I ==
    /\ pc = "new"
    /\ pc' = "done"
    /\ ret' = solveV_I(G, I, E, GR, V_E, V_GR)
    /\ UNCHANGED <<w, W, I, E, GR, vA, vB, tc, NMSS, Woff, Won, Ga, Gb, Nb,
                   G, V_E, V_GR>>
    /\ UNCHANGED <<rngvars, esnvars>>

NextSolve == CallSolveV_I

SpecSolve == InitSolve /\ [][NextSolve]_vars

\* The grounded voltages solveV_I works with.
GroundVolts == IF V_GR = NoArg THEN [k \in 1..Len(GR) |-> RZero] ELSE V_GR[1]

\* Entry (i, j) of diag(row sums of G) - G, written out from the claim.
Kirchhoff(i, j) ==
    IF i = j
    THEN RSub(RSum([k \in 1..Len(NodeSeq) |-> G[i][NodeSeq[k]]], Len(NodeSeq)),
              G[i][i])
    ELSE RSub(RZero, G[i][j])

\* Row r of A_II * x, for x indexed like I.
KirchhoffRow(r, x) ==
    RSum([c \in 1..Len(I) |-> RMul(Kirchhoff(I[r], I[c]), x[c])], Len(I))

\* Row r of G[I,E]*V_E + G[I,GR]*V_GR.
BoundaryRow(r) ==
    RAdd(RSum([e \in 1..Len(E) |-> RMul(G[I[r]][E[e]], V_E[e])], Len(E)),
         RSum([k \in 1..Len(GR) |-> RMul(G[I[r]][GR[k]], GroundVolts[k])],
              Len(GR)))

\* The triangle of the scenario: one internal, one external and one grounded
\* node, unit conductance on all edges, V_E = 1, V_GR = 0.
Triangle ==
    /\ Len(I) = 1 /\ Len(E) = 1 /\ Len(GR) = 1
    /\ \A i, j \in Nodes : i # j => G[i][j] = R(1)
    /\ V_E = <<R(1)>>
    /\ GroundVolts = <<RZero>>

(***************************************************************************)
(* C5: whenever solveV_I returns, its V_I satisfies                        *)
(* A_II * V_I = G[I,E]*V_E + G[I,GR]*V_GR with A = diag(row sums of G) - G;*)
(* it raises only when A_II is singular (some nonzero x has A_II * x = 0); *)
(* on the unit triangle with V_E = 1, V_GR = 0 it returns V_I = 0.5.       *)
(***************************************************************************)
C5_SolveSatisfiesKirchhoff ==
    pc = "done" =>
        /\ ret.outcome = "returned" =>
              /\ Len(ret.value) = Len(I)
              /\ \A r \in 1..Len(I) :
                    KirchhoffRow(r, ret.value) = BoundaryRow(r)
        /\ ret.outcome # "returned" =>
              \E x \in [1..Len(I) -> {RZero, R(1)}] :
                  /\ \E c \in 1..Len(I) : x[c] # RZero
                  /\ \A r \in 1..Len(I) : KirchhoffRow(r, x) = RZero
        /\ Triangle => ret.outcome = "returned" /\ ret.value = <<Rat(1, 2)>>

\* The triangle scenario was solved, with the ground voltage left at its
\* default.
C5_Witness ==
    /\ pc = "done"
    /\ Triangle
    /\ V_GR = NoArg
    /\ ret.outcome = "returned"
    /\ ret.value = <<Rat(1, 2)>>

RECURSIVE ConductivelyReachable(_)
\* The nodes joined to a node of S by a path of nonzero conductances.
ConductivelyReachable(S) ==
    LET T == S \cup {n \in Nodes : \E m \in S : G[n][m] # RZero}
    IN  IF T = S THEN S ELSE ConductivelyReachable(T)

BoundaryNodes == {E[k] : k \in 1..Len(E)} \cup {GR[k] : k \in 1..Len(GR)}

IsolatedInternal ==
    \E r \in 1..Len(I) : I[r] \notin ConductivelyReachable(BoundaryNodes)

mask_nothing(Wm, a) == a

\* mask(reservoir, a): a[np.where(reservoir._W == 0)] = 0
mask(Wm, a) ==
    [i \in Nodes |-> [j \in Nodes |-> IF Wm[i][j] = 0 THEN RZero ELSE a[i][j]]]

\* Elementwise operations on matrices.
MatAdd(a, b) == [i \in Nodes |-> [j \in Nodes |-> RAdd(a[i][j], b[i][j])]]

MatSub(a, b) == [i \in Nodes |-> [j \in Nodes |-> RSub(a[i][j], b[i][j])]]

MatMul(a, b) == [i \in Nodes |-> [j \in Nodes |-> RMul(a[i][j], b[i][j])]]

MatDiv(a, b) == [i \in Nodes |-> [j \in Nodes |-> RDiv(a[i][j], b[i][j])]]

\* An integer matrix as floats.
AsFloat(a) == [i \in Nodes |-> [j \in Nodes |-> R(a[i][j])]]

\* What np.random.normal(mean, std*mean, size=W.shape) can return: one
\* value per entry, every entry within Noise of the mean.  The draws of the
\* model differ from edge to edge and between the two triangles (a tilt),
\* with the signs given: -1 and 1 for the two tilts, 0 for no noise.
normal(mean, signs) ==
    {[i \in Nodes |-> [j \in Nodes |->
        R(mean + (IF i > j
                  THEN sg * (IF (i + j) % 2 = 1 THEN Noise ELSE -Noise)
                  ELSE 0))]] : sg \in signs}

\* NMSS and Nb are drawn with every sign, which gives networks with
\* Nb > NMSS on some edges and networks with Nb <= NMSS on all; Woff with
\* two, which gives networks with Woff = Won on an edge and networks with
\* Woff < Won on all; Won, and vA, vB and tc, which enter only dG's
\* switching probabilities, with one.
AllSigns == {-1, 0, 1}

TwoSigns == {-1, 0}

OneSign == {1}

\* init_property(mean, std) for the draw p: make_symmetric(p) * self._W
init_property(Wm, p) == MatMul(make_symmetric(p, TRUE, RZero), AsFloat(Wm))

\* Nb * (Gb - Ga) + NMSS * Ga
conductanceOf(nb, nmss, ga, gb) ==
    MatAdd(MatMul(nb, MatSub(gb, ga)), MatMul(nmss, ga))

\* The arguments of the modelled constructor call: the means of the
\* property matrices (the defaults, scaled to small integers).
Params == [vA |-> 1, vB |-> 2, tc |-> 3, NMSS |-> 3, Woff |-> 1, Won |-> 3,
           Nb |-> 2]

\* Raw connectivity handed to the constructor: the symmetric 0/1 matrices
\* and the directed ones with edges from lower to higher indexes only, of
\* the graphs that grow edge by edge: no edge, 0-1, the path 0-1-2 and the
\* triangle.
NetRaw ==
    {x \in [Nodes -> [Nodes -> {0, 1}]] :
        /\ \A i \in Nodes : x[i][i] = 0
        /\ \/ \A i, j \in Nodes : x[i][j] = x[j][i]
           \/ \A i, j \in Nodes : i > j => x[i][j] = 0
        /\ x[1][2] = 1 => x[0][1] = 1
        /\ x[0][2] = 1 => x[1][2] = 1}

\* Index arrays handed to the constructor: two partitions of the nodes,
\* one with node 1 in two sets, one that leaves node 2 out.
IndexArgs == {<< <<0>>, <<1>>, <<2>> >>,
              << <<0, 1>>, <<2>>, <<>> >>,
              << <<0, 1>>, <<1>>, <<2>> >>,
              << <<0>>, <<1>>, <<>> >>}

Init ==
    /\ pc = "new"
    /\ w = None
    /\ NoNet
    /\ G = None /\ V_E = None /\ V_GR = None
    /\ ret = None
    /\ NoRng /\ NoESN

\* MSSNetwork.__init__ with MemristiveReservoir.__init__: no argument is
\* validated, and _Nb is assigned without going through the Nb setter.
ConstructWith(raws, index_args) ==
    /\ pc = "new"
    /\ \E raw \in raws : W' = setW(raw)
    /\ \E ix \in index_args : I' = ix[1] /\ E' = ix[2] /\ GR' = ix[3]
    /\ \E p \in normal(Params.vA, OneSign) : vA' = init_property(W', p)
    /\ \E p \in normal(Params.vB, OneSign) : vB' = init_property(W', p)
    /\ \E p \in normal(Params.tc, OneSign) : tc' = init_property(W', p)
    /\ \E p \in normal(Params.NMSS, AllSigns) : NMSS' = init_property(W', p)
    /\ \E p \in normal(Params.Woff, TwoSigns) : Woff' = init_property(W', p)
    /\ \E p \in normal(Params.Won, OneSign) : Won' = init_property(W', p)
    /\ Ga' = mask(W', MatDiv(Woff', NMSS'))
    /\ Gb' = mask(W', MatDiv(Won', NMSS'))
    /\ \E p \in normal(Params.Nb, AllSigns) : Nb' = init_property(W', p)
    /\ G' = conductanceOf(Nb', NMSS', Ga', Gb')
    /\ pc' = "ready"
    /\ ret' = [op |-> "__init__", outcome |-> "returned"]
    /\ UNCHANGED <<w, V_E, V_GR>>
    /\ UNCHANGED <<rngvars, esnvars>>

\* MSSNetwork(w, i_nodes, e_nodes, gr_nodes) on the arguments of Spec.
Construct == ConstructWith(NetRaw, IndexArgs)

(***************************************************************************)
(* MSSNetwork: the Nb and G properties                                     *)
(***************************************************************************)
\* The Nb setter: entries below 0 are overwritten with NMSS, then entries
\* above NMSS are overwritten with NMSS.
Nb_setter(value, nmss) ==
    LET below == [i \in Nodes |-> [j \in Nodes |->
                     IF RLess(value[i][j], RZero)
                     THEN nmss[i][j] ELSE value[i][j]]]
    IN  [i \in Nodes |-> [j \in Nodes |->
            IF RLess(nmss[i][j], below[i][j])
            THEN nmss[i][j] ELSE below[i][j]]]

\* The matrices written to Nb: any shape, not masked; here a constant c, or
\* c tilted by the index difference so that one matrix holds entries below
\* 0, in range and above NMSS.
NbWrites ==
    {[i \in Nodes |-> [j \in Nodes |-> R(c + a * (i - j))]] :
        c \in (-1)..MaxWrite, a \in {0, 1}}

\* net.Nb = value
WriteNb ==
    /\ pc = "ready"
    /\ \E value \in NbWrites :
          /\ Nb' = Nb_setter(value, NMSS)
          /\ ret' = [op |-> "Nb.setter", outcome |-> "returned",
                     value |-> value]
    /\ UNCHANGED <<pc, w, W, I, E, GR, vA, vB, tc, NMSS, Woff, Won, Ga, Gb,
                   G, V_E, V_GR>>
    /\ UNCHANGED <<rngvars, esnvars>>

\* The G setter: stores the conductance of its argument read as a switch
\* count, or that of the current Nb when the argument is None.
G_setter(arg, nb, nmss, ga, gb) ==
    IF arg = NoArg
    THEN conductanceOf(nb, nmss, ga, gb)
    ELSE conductanceOf(arg[1], nmss, ga, gb)

\* The matrices written to G: nothing (None), or an unmasked matrix that is
\* nonzero off the edges and on the diagonal.
GWrites ==
    {NoArg, Arg([i \in Nodes |-> [j \in Nodes |-> R(MaxWrite + (i - j))]])}

\* net.G = value
WriteG ==
    /\ pc = "ready"
    /\ \E arg \in GWrites : G' = G_setter(arg, Nb, NMSS, Ga, Gb)
    /\ ret' = [op |-> "G.setter", outcome |-> "returned"]
    /\ UNCHANGED <<pc, w, W, I, E, GR, vA, vB, tc, NMSS, Woff, Won, Ga, Gb,
                   Nb, V_E, V_GR>>
    /\ UNCHANGED <<rngvars, esnvars>>

(***************************************************************************)
(* MSSNetwork.dG with a G argument                                         *)
(***************************************************************************)
\* Lines 651-652: Nb = mask((G - NMSS*Ga)/(Gb - Ga)).  The quotient is
\* computed, then mask is called with one positional argument where it
\* takes two (reservoir, a): Python raises TypeError and dG ends there.
dG_switchCountOf(g, nmss, ga, gb) ==
    LET quotient == MatDiv(MatSub(g, MatMul(nmss, ga)), MatSub(gb, ga))
    IN  [outcome |-> "TypeError", value |-> None]

\* net.dG(V, G=net.G): G is the conductance of the current Nb (the G getter).
CallDG_G ==
    /\ pc = "ready"
    /\ LET r == dG_switchCountOf(conductanceOf(Nb, NMSS, Ga, Gb), NMSS, Ga, Gb)
       IN  ret' = [op |-> "dG", outcome |-> r.outcome, value |-> r.value]
    /\ UNCHANGED <<pc, w, W, I, E, GR, vA, vB, tc, NMSS, Woff, Won, Ga, Gb,
                   Nb, G, V_E, V_GR>>
    /\ UNCHANGED <<rngvars, esnvars>>

\* The voltages of the modelled calls: internal voltages 1, 2, ..,
\* external voltages -1, -2, .. and the ground at its default or at 3.
InternalVolts == [k \in 1..Len(I) |-> R(k)]

ExternalVolts == [k \in 1..Len(E) |-> R(-k)]

GroundArgs == {NoArg, Arg([k \in 1..Len(GR) |-> R(3)])}

\* net.solveV_I(V_E) with V_GR and G left at None: the conductance is read
\* from self._G.
CallSolveV_I_default ==
    /\ pc = "ready"
    /\ ret' = solveV_I(G, I, E, GR, ExternalVolts, NoArg)
    /\ UNCHANGED <<pc, w, W, I, E, GR, vA, vB, tc, NMSS, Woff, Won, Ga, Gb,
                   Nb, G, V_E, V_GR>>
    /\ UNCHANGED <<rngvars, esnvars>>

(***************************************************************************)
(* MemristiveReservoir.getV                                                *)
(***************************************************************************)
\* The last position of node n in the index arrays laid end to end, 0 when
\* n is in none: zip(nodes, voltage) into a dict keeps the last pair.
LastIndex(nodes, n) ==
    LET at == {k \in 1..Len(nodes) : nodes[k] = n}
    IN  IF at = {} THEN 0 ELSE CHOOSE k \in at : \A m \in at : m <= k

\* getV with the difference taken from the higher to the lower index.
getV_reversed(Wm, i_nodes, e_nodes, gr_nodes, v_i, v_e, v_gr_arg) ==
    LET v_gr == IF v_gr_arg = NoArg THEN zeros(Len(gr_nodes)) ELSE v_gr_arg[1]
        voltage == v_i \o v_e \o v_gr
        nodes == i_nodes \o e_nodes \o gr_nodes
        nv_dict == [n \in Nodes |-> LastIndex(nodes, n)]
        V == [i \in Nodes |-> [j \in Nodes |->
                 IF Wm[i][j] = 0 THEN RZero
                 ELSE IF j > i
                      THEN RSub(voltage[nv_dict[j]], voltage[nv_dict[i]])
                      ELSE RSub(voltage[nv_dict[i]], voltage[nv_dict[j]])]]
    IN  IF \E i, j \in Nodes :
               Wm[i][j] # 0 /\ (nv_dict[i] = 0 \/ nv_dict[j] = 0)
        THEN [op |-> "getV", outcome |-> "KeyError", value |-> None]
        ELSE [op |-> "getV", outcome |-> "returned", value |-> mask(Wm, V)]

\* getV(V_I, V_E, V_GR) on a reservoir with mask Wm and the index arrays
\* given: the matrix of voltage drops, or KeyError when an edge of Wm
\* touches a node that is in none of the index arrays.
getV(Wm, i_nodes, e_nodes, gr_nodes, v_i, v_e, v_gr_arg) ==
    LET v_gr == IF v_gr_arg = NoArg THEN zeros(Len(gr_nodes)) ELSE v_gr_arg[1]
        voltage == v_i \o v_e \o v_gr
        nodes == i_nodes \o e_nodes \o gr_nodes
        nv_dict == [n \in Nodes |-> LastIndex(nodes, n)]
        V == [i \in Nodes |-> [j \in Nodes |->
                 IF Wm[i][j] = 0 THEN RZero
                 ELSE IF j > i
                      THEN RSub(voltage[nv_dict[i]], voltage[nv_dict[j]])
                      ELSE RSub(voltage[nv_dict[j]], voltage[nv_dict[i]])]]
    IN  IF \E i, j \in Nodes :
               Wm[i][j] # 0 /\ (nv_dict[i] = 0 \/ nv_dict[j] = 0)
        THEN [op |-> "getV", outcome |-> "KeyError", value |-> None]
        ELSE [op |-> "getV", outcome |-> "returned", value |-> mask(Wm, V)]

\* net.getV(V_I, V_E, V_GR); ret keeps the V_GR argument of the call.
CallGetV ==
    /\ pc = "ready"
    /\ \E v_gr_arg \in GroundArgs :
          ret' = getV(W, I, E, GR, InternalVolts, ExternalVolts, v_gr_arg)
                     @@ [V_GR |-> v_gr_arg]
    /\ UNCHANGED <<pc, w, W, I, E, GR, vA, vB, tc, NMSS, Woff, Won, Ga, Gb,
                   Nb, G, V_E, V_GR>>
    /\ UNCHANGED <<rngvars, esnvars>>

(***************************************************************************)
(* MemristiveReservoir.iterate and simulate                                *)
(***************************************************************************)
\* The default of iterate's iters.
DefaultIters == 10

\* iterate(V_E, tol, iters): V_I_0 = 'guess', n_iters = 0.  With
\* n_iters >= iters the loop breaks and the function ends without a return
\* statement.  Otherwise getV('guess', V_E) evaluates 'guess'[:, np.newaxis],
\* which raises TypeError.  reached_iters says whether the loop ended on
\* n_iters >= iters, and converged whether the convergence test of the
\* loop's end set convergence = True.
iterate(iters) ==
    IF 0 >= iters
    THEN [op |-> "iterate", outcome |-> "returned", value |-> None,
          reached_iters |-> TRUE, converged |-> FALSE]
    ELSE [op |-> "iterate", outcome |-> "TypeError", value |-> None,
          reached_iters |-> FALSE, converged |-> FALSE]

CallIterate ==
    /\ pc = "ready"
    /\ \E iters \in (0..MaxIters) \cup {DefaultIters} : ret' = iterate(iters)
    /\ UNCHANGED <<pc, w, W, I, E, GR, vA, vB, tc, NMSS, Woff, Won, Ga, Gb,
                   Nb, G, V_E, V_GR>>
    /\ UNCHANGED <<rngvars, esnvars>>

\* simulate(ext_input) for T = len(ext_input): the loop body starts with
\* self.solveVI(V_E), a method no class defines (AttributeError); after the
\* loop the function ends without a return statement.  steps counts the
\* timesteps completed and nb_writes the writes of Nb.
simulate(T) ==
    IF T = 0
    THEN [op |-> "simulate", outcome |-> "returned", value |-> None,
          T |-> T, steps |-> 0, nb_writes |-> 0]
    ELSE [op |-> "simulate", outcome |-> "AttributeError", value |-> None,
          T |-> T, steps |-> 0, nb_writes |-> 0]

CallSimulate ==
    /\ pc = "ready"
    /\ \E T \in 0..MaxT : ret' = simulate(T)
    /\ UNCHANGED <<pc, w, W, I, E, GR, vA, vB, tc, NMSS, Woff, Won, Ga, Gb,
                   Nb, G, V_E, V_GR>>
    /\ UNCHANGED <<rngvars, esnvars>>

Next ==
    \/ Construct
    \/ WriteNb
    \/ WriteG
    \/ CallSolveV_I_default
    \/ CallDG_G
    \/ CallGetV
    \/ CallIterate
    \/ CallSimulate

Spec == Init /\ [][Next]_vars

(***************************************************************************)
(* MSSNetwork.dG without a G argument                                      *)
(***************************************************************************)
\* The thermal voltage VT = 1/b, positive; one unit of the model.
VT == R(1)

\* 1 / (1 + np.exp(exponent)).  The exponential is not computed: the
\* quotient is 1/2 at exponent 0, below 1/2 for a positive exponent and
\* above for a negative one, and it is kept at two levels on each side:
\* 1/4 and 3/4, or, with sat, the 0 and the 1 floating point reaches when
\* np.exp overflows or 1 + np.exp rounds to 1.
inv_one_plus_exp(exponent, sat) ==
    IF ~IsFinite(exponent) THEN NaN
    ELSE IF exponent = RZero THEN Rat(1, 2)
    ELSE IF RLess(RZero, exponent)
         THEN (IF sat THEN R(0) ELSE Rat(1, 4))
         ELSE (IF sat THEN R(1) ELSE Rat(3, 4))

\* Pa = alpha / (1 + np.exp(-1 * (V - vA) / VT)), alpha = dt / tc
Pa_of(V, dt, sat) ==
    [i \in Nodes |-> [j \in Nodes |->
        RMul(RDiv(dt, tc[i][j]),
             inv_one_plus_exp(RDiv(RMul(R(-1), RSub(V[i][j], vA[i][j])), VT),
                              sat))]]

\* Pb = alpha * (1 - 1 / (1 + np.exp(-1 * (V + vB) / VT)))
Pb_of(V, dt, sat) ==
    [i \in Nodes |-> [j \in Nodes |->
        RMul(RDiv(dt, tc[i][j]),
             RSub(R(1),
                  inv_one_plus_exp(
                      RDiv(RMul(R(-1), RAdd(V[i][j], vB[i][j])), VT), sat)))]]

\* x.astype(int) on a finite float: truncation towards zero.
astype_int(x) == Sign(x[1]) * (Abs(x[1]) \div x[2])

\* np.random.binomial refuses n < 0, and p < 0, p > 1 or p nan.
binomial_bad_n(n) == \E i, j \in Nodes : n[i][j] < 0

binomial_bad_p(p) ==
    \E i, j \in Nodes :
        LET x == p[i][j]
        IN  ~IsFinite(x) \/ RLess(x, RZero) \/ RLess(R(1), x)

\* The draws of the model, one per entry: all at their least ("lo"), all at
\* their most ("hi"), or tilted so that neighbouring edges and the two
\* triangles differ ("tilt").
DrawModes == {"lo", "hi", "tilt"}

DrawsHigh(u, i, j) ==
    \/ u = "hi"
    \/ u = "tilt" /\ ((i > j) <=> ((i + j) % 2 = 1))

\* A draw that can exceed its number of trials.
binomial_over(n, p, u) ==
    [i \in Nodes |-> [j \in Nodes |->
        LET x == p[i][j]
        IN  IF x = RZero THEN 0
            ELSE IF DrawsHigh(u, i, j) THEN n[i][j] + 1 ELSE 0]]

\* np.random.binomial(n, p) entry by entry: a count in 0..n; 0 when p is 0
\* and n when p is 1.
binomial(n, p, u) ==
    [i \in Nodes |-> [j \in Nodes |->
        LET x == p[i][j]
        IN  IF x = RZero THEN 0
            ELSE IF x = R(1) THEN n[i][j]
            ELSE IF DrawsHigh(u, i, j) THEN n[i][j] ELSE 0]]

\* The draws left as they were drawn.
symmetric_draws_not(Wm, g) == g

\* if check_symmetric(self._W): Gab = make_symmetric(Gab)
symmetric_draws(Wm, g) ==
    IF check_symmetric(Wm) THEN make_symmetric(g, TRUE, 0) ELSE g

\* dG(V, G=None, dt, return_dNb) on the current object; sat, ua and ub are
\* what the floating-point exponential and the two binomial calls give.
dG(V, dt, return_dNb, sat, ua, ub) ==
    LET Pa == mask(W, Pa_of(V, dt, sat))
        Pb == mask(W, Pb_of(V, dt, sat))
        Na == MatSub(NMSS, Nb)
        n_a == [i \in Nodes |-> [j \in Nodes |-> astype_int(Na[i][j])]]
        n_b == [i \in Nodes |-> [j \in Nodes |-> astype_int(Nb[i][j])]]
        Gab == symmetric_draws(W, binomial(n_a, Pa, ua))
        Gba == symmetric_draws(W, binomial(n_b, Pb, ub))
        dNb == [i \in Nodes |-> [j \in Nodes |-> Gab[i][j] - Gba[i][j]]]
        dGv == MatMul(AsFloat(dNb), MatSub(Gb, Ga))
        call == [op |-> "dG", return_dNb |-> return_dNb, Pa |-> Pa, Pb |-> Pb]
        bad_Pa == binomial_bad_p(Pa)
    IN  IF binomial_bad_n(n_a) \/ (~bad_Pa /\ binomial_bad_n(n_b))
        THEN call @@ [outcome |-> "ValueError", detail |-> "n < 0",
                      value |-> None]
        ELSE IF bad_Pa \/ binomial_bad_p(Pb)
        THEN call @@ [outcome |-> "ValueError",
                      detail |-> "p < 0, p > 1 or p is nan", value |-> None]
        ELSE call @@ [outcome |-> "returned", detail |-> None,
                      value |-> IF return_dNb THEN dNb ELSE dGv]

\* The connectivity and the index arrays of SpecDG: the triangle and the
\* path 0 - 1 - 2, with node 0 internal, 1 external and 2 grounded.
DGRaw ==
    {[i \in Nodes |-> [j \in Nodes |-> IF i # j THEN 1 ELSE 0]],
     [i \in Nodes |-> [j \in Nodes |-> IF Abs(i - j) = 1 THEN 1 ELSE 0]]}

DGIndexArgs == {<< <<0>>, <<1>>, <<2>> >>}

ConstructDG == ConstructWith(DGRaw, DGIndexArgs)

\* The time steps handed to dG: below every tc, and above some.
DtValues == {R(1), R(MaxDt)}

\* V = net.getV(V_I, V_E, V_GR); net.dG(V, dt=dt, return_dNb=return_dNb):
\* dG is handed the matrix the call of getV before it returned.
CallDG ==
    /\ pc = "ready"
    /\ ret.op = "getV" /\ ret.outcome = "returned"
    /\ \E dt \in DtValues, return_dNb \in BOOLEAN, sat \in BOOLEAN,
          ua \in DrawModes, ub \in DrawModes :
          ret' = dG(ret.value, dt, return_dNb, sat, ua, ub)
    /\ UNCHANGED <<pc, w, W, I, E, GR, vA, vB, tc, NMSS, Woff, Won, Ga, Gb,
                   Nb, G, V_E, V_GR>>
    /\ UNCHANGED <<rngvars, esnvars>>

NextDG ==
    \/ ConstructDG
    \/ WriteNb
    \/ CallGetV
    \/ CallDG

SpecDG == Init /\ [][NextDG]_vars

(***************************************************************************)
(* Two MSSNetwork objects and numpy's global random stream                 *)
(***************************************************************************)
\* init_property and dG draw with np.random.normal and np.random.binomial,
\* the functions of numpy's one global generator: every call consumes the
\* next block of the same stream, whichever object makes it.  rng is the
\* number of blocks consumed so far, and insts[x].draws the positions of
\* the blocks object x consumed, in order.
Instances == {"A", "B"}

\* The np.random.normal calls of one construction: init_property for vA,
\* vB, tc, NMSS, Woff, Won and Nb.
DrawsPerInit == 7

\* The np.random.binomial calls of one dG: Gab and Gba.
DrawsPerDG == 2

\* The next n blocks of the global stream.
take(n) == [k \in 1..n |-> rng + k - 1]

InitRng ==
    /\ pc = "rng"
    /\ w = None
    /\ NoNet
    /\ G = None /\ V_E = None /\ V_GR = None
    /\ ret = None
    /\ rng = 0
    /\ insts = [x \in Instances |-> [built |-> FALSE, draws |-> <<>>, calls |-> 0]]
    /\ NoESN

\* x = MSSNetwork(...)
ConstructInst(x) ==
    /\ pc = "rng"
    /\ ~insts[x].built
    /\ insts' = [insts EXCEPT ![x] = [built |-> TRUE,
                                      draws |-> take(DrawsPerInit),
                                      calls |-> 0]]
    /\ rng' = rng + DrawsPerInit
    /\ ret' = [op |-> "__init__", outcome |-> "returned", self |-> x]
    /\ UNCHANGED <<pc, w, W, I, E, GR, vA, vB, tc, NMSS, Woff, Won, Ga, Gb,
                   Nb, G, V_E, V_GR>>
    /\ UNCHANGED esnvars

\* x.dG(V) with probabilities in range, so that both binomial calls are made
DGInst(x) ==
    /\ pc = "rng"
    /\ insts[x].built
    /\ insts[x].calls < MaxCalls
    /\ insts' = [insts EXCEPT ![x].draws = @ \o take(DrawsPerDG),
                              ![x].calls = @ + 1]
    /\ rng' = rng + DrawsPerDG
    /\ ret' = [op |-> "dG", outcome |-> "returned", self |-> x]
    /\ UNCHANGED <<pc, w, W, I, E, GR, vA, vB, tc, NMSS, Woff, Won, Ga, Gb,
                   Nb, G, V_E, V_GR>>
    /\ UNCHANGED esnvars

NextRng == \E x \in Instances : ConstructInst(x) \/ DGInst(x)

SpecRng == InitRng /\ [][NextRng]_vars

(***************************************************************************)
(* C11: two objects share no random stream: under every interleaving of    *)
(* constructions and dG calls of A and B, the draws A consumes are those   *)
(* it consumes when it runs alone, the first blocks of its stream in       *)
(* order.                                                                  *)
(***************************************************************************)
C11_OwnRandomStream ==
    pc = "rng" =>
        \A k \in 1..Len(insts["A"].draws) : insts["A"].draws[k] = k - 1

(***************************************************************************)
(* EchoStateNetwork.simulate                                               *)
(***************************************************************************)
\* Vectors are sequences and matrices sequences of rows (source, target);
\* the entries are whole numbers, on which float arithmetic is exact.
RECURSIVE ISum(_, _)
ISum(f, n) == IF n = 0 THEN 0 ELSE ISum(f, n - 1) + f[n]

\* np.dot(v, m) for a vector v and a matrix m with n_cols columns
np_dot(v, m, n_cols) ==
    [j \in 1..n_cols |-> ISum([k \in 1..Len(v) |-> v[k] * m[k][j]], Len(v))]

\* The activation functions that are exact on whole numbers: linear (m = 1),
\* relu, and step with thr = 0.5, vmin = 0, vmax = 1.
activation(name, x) ==
    [j \in 1..Len(x) |->
        IF name = "linear" THEN x[j]
        ELSE IF name = "relu" THEN (IF x[j] > 0 THEN x[j] ELSE 0)
        ELSE (IF x[j] >= 1 THEN 1 ELSE 0)]

\* The input row of the loop's step t, taken as ext_input[t, :].
input_row_current(ext, t) == ext[t + 1]

\* The input row of the loop's step t: ext_input[t-1, :], the t-th row.
input_row(ext, t) == ext[t]

\* Rows 0..t of self._state (positions 1..t+1) after the loop's step t.
RECURSIVE state_rows(_, _, _, _, _, _)
state_rows(wih, whh, name, ext, first, t) ==
    IF t = 0 THEN <<first>>
    ELSE LET before == state_rows(wih, whh, name, ext, first, t - 1)
             hidden == Len(first)
             hh == np_dot(before[t], whh, hidden)
             ih == np_dot(input_row(ext, t), wih, hidden)
             synap_input == [j \in 1..hidden |-> hh[j] + ih[j]]
         IN  Append(before, activation(name, synap_input))

\* simulate(ext_input, ic): timesteps = range(1, len(ext_input)), _state
\* has len(timesteps) + 1 rows, row 0 is ic or zeros.
ESN_simulate(wih, whh, name, ext, ic_arg) ==
    LET hidden == Len(whh)
        first == IF ic_arg = NoArg THEN [j \in 1..hidden |-> 0] ELSE ic_arg[1]
        last == IF Len(ext) = 0 THEN 0 ELSE Len(ext) - 1
    IN  state_rows(wih, whh, name, ext, first, last)

\* The networks of the model: two nodes, one input.
HiddenWeights ==
    {<< <<1, 0>>, <<0, 1>> >>, << <<0, 1>>, <<-1, 0>> >>,
     << <<1, 1>>, <<0, 1>> >>}

InputWeights == {<< <<1, 0>> >>, << <<1, -1>> >>}

ActivationNames == {"linear", "relu", "step"}

InputRows == {<<-1>>, <<1>>}

ExtInputs == UNION {[1..n -> InputRows] : n \in 0..MaxSteps}

InitialConditions == {NoArg, Arg(<<1, 0>>)}

InitESN ==
    /\ pc = "new"
    /\ w = None
    /\ NoNet
    /\ G = None /\ V_E = None /\ V_GR = None
    /\ ret = None
    /\ NoRng
    /\ w_ih \in InputWeights
    /\ w_hh \in HiddenWeights
    /\ activation_function \in ActivationNames
    /\ ext_input \in ExtInputs
    /\ ic \in InitialConditions
    /\ state = None

\* esn.simulate(ext_input, ic)
CallESNSimulate ==
    /\ pc = "new"
    /\ pc' = "done"
    /\ state' = ESN_simulate(w_ih, w_hh, activation_function, ext_input, ic)
    /\ ret' = [op |-> "simulate", outcome |-> "returned"]
    /\ UNCHANGED <<w, W, I, E, GR, vA, vB, tc, NMSS, Woff, Won, Ga, Gb, Nb, G,
                   V_E, V_GR>>
    /\ UNCHANGED <<rngvars, w_ih, w_hh, activation_function, ext_input, ic>>

NextESN == CallESNSimulate

SpecESN == InitESN /\ [][NextESN]_vars

(***************************************************************************)
(* C20: for a non-empty input of T rows EchoStateNetwork.simulate returns  *)
(* exactly T state rows; row 0 is ic (zeros without ic); row t, for t in   *)
(* 1..T-1, is activation(row[t-1] . w_hh + ext_input[t-1] . w_ih); and the *)
(* last input row has no influence on what is returned.                    *)
(***************************************************************************)
C20_ESNStateRows ==
    (pc = "done" /\ Len(ext_input) >= 1) =>
        LET T == Len(ext_input)
        IN  /\ Len(state) = T
            /\ state[1] = (IF ic = NoArg THEN <<0, 0>> ELSE ic[1])
            /\ \A t \in 1..(T - 1) :
                   \A j \in 1..2 :
                       LET x == state[t][1] * w_hh[1][j]
                                + state[t][2] * w_hh[2][j]
                                + ext_input[t][1] * w_ih[1][j]
                       IN  state[t + 1][j] =
                               activation(activation_function, <<x>>)[1]
            /\ \A u \in InputRows :
                   state = ESN_simulate(w_ih, w_hh, activation_function,
                                        [ext_input EXCEPT ![T] = u], ic)

\* simulate ran on three input rows, the last of them 1, and its last state
\* row is neither zero nor the row before it.
C20_Witness ==
    /\ pc = "done"
    /\ Len(ext_input) = MaxSteps
    /\ ext_input[MaxSteps] = <<1>>
    /\ state[Len(state)] # <<0, 0>>
    /\ state[Len(state)] # state[Len(state) - 1]

\* The index arrays are pairwise disjoint and cover every node exactly once.
ValidPartition ==
    LET nodes == I \o E \o GR
    IN  \A n \in Nodes : Cardinality({k \in 1..Len(nodes) : nodes[k] = n}) = 1

\* x <= y on floats.
RLeq(x, y) == IsFinite(x) /\ IsFinite(y) /\ x[1] * y[2] <= y[1] * x[2]

(***************************************************************************)
(* C2: in every state of an MSSNetwork, right after construction and after *)
(* every later write of Nb, every edge has 0 <= Nb <= NMSS (stated for     *)
(* networks built on a partition of the nodes).                            *)
(***************************************************************************)
C2_NbWithinBounds ==
    (pc = "ready" /\ ValidPartition) =>
        \A i, j \in Nodes :
            W[i][j] = 1 =>
                RLeq(RZero, Nb[i][j]) /\ RLeq(Nb[i][j], NMSS[i][j])

\* m is exactly zero wherever W is zero, and on the diagonal.
ZeroOffMask(m) ==
    /\ \A i, j \in Nodes : W[i][j] = 0 => m[i][j] = RZero
    /\ \A i \in Nodes : m[i][i] = RZero

(***************************************************************************)
(* C3: after construction and after any sequence of operations, the        *)
(* property matrices vA, vB, tc, NMSS, Woff, Won, Ga, Gb, the switch state *)
(* Nb, the conductance (cached, and as the G getter computes it) and the   *)
(* matrix getV returns are zero wherever W is zero, the diagonal included. *)
(***************************************************************************)
C3_ZeroWhereNoEdge ==
    pc = "ready" =>
        /\ ZeroOffMask(vA) /\ ZeroOffMask(vB) /\ ZeroOffMask(tc)
        /\ ZeroOffMask(NMSS) /\ ZeroOffMask(Woff) /\ ZeroOffMask(Won)
        /\ ZeroOffMask(Ga) /\ ZeroOffMask(Gb)
        /\ ZeroOffMask(Nb)
        /\ ZeroOffMask(G)
        /\ ZeroOffMask(conductanceOf(Nb, NMSS, Ga, Gb))
        /\ (ret.op = "getV" /\ ret.outcome = "returned") =>
               ZeroOffMask(ret.value)

\* A network with an edge and a missing edge, whose Nb was written after
\* construction (the cached conductance is no longer that of Nb), and on
\* which getV returned nonzero voltage drops.
C3_Witness ==
    /\ pc = "ready"
    /\ \E i, j \in Nodes : i # j /\ W[i][j] = 0
    /\ \E i, j \in Nodes : W[i][j] = 1
    /\ G # conductanceOf(Nb, NMSS, Ga, Gb)
    /\ ret.op = "getV" /\ ret.outcome = "returned"
    /\ \E i, j \in Nodes : ret.value[i][j] # RZero

(***************************************************************************)
(* C4: for a valid Nb (0 <= Nb <= NMSS), handing dG the conductance of Nb  *)
(* as its G argument maps it back to Nb on every edge where Gb # Ga        *)
(* (stated for networks built on a partition of the nodes).                *)
(***************************************************************************)
C4_RoundTrip ==
    (/\ pc = "ready"
     /\ ValidPartition
     /\ ret.op = "dG"
     /\ \A i, j \in Nodes :
            RLeq(RZero, Nb[i][j]) /\ RLeq(Nb[i][j], NMSS[i][j])) =>
        /\ ret.outcome = "returned"
        /\ \A i, j \in Nodes :
               Gb[i][j] # Ga[i][j] => ret.value[i][j] = Nb[i][j]

(***************************************************************************)
(* C7: when iterate reaches its maximum iteration count without            *)
(* converging it raises nothing and returns its best-effort output with a  *)
(* flag; it never returns nothing (stated for networks built on a          *)
(* partition of the nodes).                                                *)
(***************************************************************************)
C7_IterateAtCapReturnsFlaggedOutput ==
    (pc = "ready" /\ ValidPartition /\ ret.op = "iterate"
        /\ ret.reached_iters) =>
        (ret.outcome = "returned" /\ ret.value # None)

(***************************************************************************)
(* C8: no reservoir exists whose internal, external and grounded index     *)
(* sets overlap or fail to cover every node exactly once: such a           *)
(* construction fails.                                                     *)
(***************************************************************************)
C8_NoInstanceWithInvalidPartition ==
    pc = "ready" => ValidPartition

(***************************************************************************)
(* C9: simulate on T input vectors returns exactly T internal-voltage      *)
(* vectors, each of length |I| (stated for a non-empty input and a network *)
(* built on a partition of the nodes).                                     *)
(***************************************************************************)
C9_SimulateReturnsTVectors ==
    (pc = "ready" /\ ValidPartition /\ ret.op = "simulate" /\ ret.T >= 1) =>
        /\ ret.outcome = "returned"
        /\ ret.value # None
        /\ Len(ret.value) = ret.T
        /\ \A t \in 1..ret.T : Len(ret.value[t]) = Len(I)

(***************************************************************************)
(* C10: simulate processes its T inputs in order and every step writes     *)
(* Nb, so that after simulate Nb is the result of T successive updates     *)
(* (stated for networks built on a partition of the nodes).                *)
(***************************************************************************)
C10_SimulateEvolvesNb ==
    (pc = "ready" /\ ValidPartition /\ ret.op = "simulate") =>
        /\ ret.outcome = "returned"
        /\ ret.steps = ret.T
        /\ ret.nb_writes = ret.T

(***************************************************************************)
(* C12: a write through the Nb setter clamps elementwise to [0, NMSS]: an  *)
(* entry below 0 is stored as 0, an entry above NMSS as NMSS, an entry in  *)
(* range unchanged (stated for networks built on a partition of the        *)
(* nodes).                                                                 *)
(***************************************************************************)
C12_SetterClamps ==
    (pc = "ready" /\ ValidPartition /\ ret.op = "Nb.setter") =>
        \A i, j \in Nodes :
            Nb[i][j] = (IF RLess(ret.value[i][j], RZero) THEN RZero
                        ELSE IF RLess(NMSS[i][j], ret.value[i][j])
                             THEN NMSS[i][j]
                             ELSE ret.value[i][j])

C14_CachedConductanceFollowsNb ==
    (pc = "ready" /\ ValidPartition /\ ret.op \in {"Nb.setter", "solveV_I"}) =>
        /\ G = conductanceOf(Nb, NMSS, Ga, Gb)
        /\ ret.op = "solveV_I" =>
               ret = solveV_I(conductanceOf(Nb, NMSS, Ga, Gb), I, E, GR,
                              ExternalVolts, NoArg)

\* The voltage the call of getV assigns to node n: that of its position in
\* the one index array that holds it.
NodeVoltage(n) ==
    LET gr == IF ret.V_GR = NoArg THEN zeros(Len(GR)) ELSE ret.V_GR[1]
    IN  IF \E k \in 1..Len(I) : I[k] = n
        THEN InternalVolts[CHOOSE k \in 1..Len(I) : I[k] = n]
        ELSE IF \E k \in 1..Len(E) : E[k] = n
             THEN ExternalVolts[CHOOSE k \in 1..Len(E) : E[k] = n]
             ELSE gr[CHOOSE k \in 1..Len(GR) : GR[k] = n]

(***************************************************************************)
(* C17: on a partition of the nodes getV returns a matrix whose entry      *)
(* (i,j), for every edge of W with i < j, is V[i] - V[j], V[n] being the   *)
(* voltage of node n in its index array (the ground defaulting to 0), and  *)
(* whose entries where W is 0 are zero.                                    *)
(***************************************************************************)
C17_VoltageDrops ==
    (pc = "ready" /\ ValidPartition /\ ret.op = "getV") =>
        /\ ret.outcome = "returned"
        /\ \A i, j \in Nodes :
               /\ (W[i][j] # 0 /\ i < j) =>
                      ret.value[i][j] = RSub(NodeVoltage(i), NodeVoltage(j))
               /\ W[i][j] = 0 => ret.value[i][j] = RZero

\* getV returned on a partition with a grounded node at its default, an
\* edge between an internal and an external node and a missing edge.
C17_Witness ==
    /\ pc = "ready" /\ ValidPartition
    /\ ret.op = "getV" /\ ret.outcome = "returned"
    /\ ret.V_GR = NoArg /\ Len(GR) > 0
    /\ \E i, j \in Nodes : i < j /\ W[i][j] # 0 /\ ret.value[i][j] # RZero
    /\ \E i, j \in Nodes : i # j /\ W[i][j] = 0

(***************************************************************************)
(* C15: when W is symmetric, what dG returns, the switch-count delta dNb   *)
(* or the conductance delta, is symmetric: the entries (i,j) and (j,i) are *)
(* equal, both coming from one draw.                                       *)
(***************************************************************************)
C15_SymmetricIncrement ==
    (pc = "ready" /\ ret.op = "dG" /\ ret.outcome = "returned"
        /\ check_symmetric(W)) =>
        \A i, j \in Nodes : ret.value[i][j] = ret.value[j][i]

\* dG returned a conductance delta that is nonzero on one edge and differs
\* from edge to edge.
C15_Witness ==
    /\ pc = "ready" /\ ret.op = "dG" /\ ret.outcome = "returned"
    /\ ~ret.return_dNb
    /\ check_symmetric(W)
    /\ \E i, j \in Nodes : ret.value[i][j] # RZero
    /\ \E i, j, k, l \in Nodes :
           /\ W[i][j] = 1 /\ W[k][l] = 1
           /\ ret.value[i][j] # ret.value[k][l]

(***************************************************************************)
(* C16: for every dt, tc and edge voltage, the probabilities Pa and Pb dG  *)
(* hands to the binomial sampler lie in [0,1] on every entry, so dG never  *)
(* fails on an out-of-range probability.                                   *)
(***************************************************************************)
C16_ProbabilitiesInRange ==
    (pc = "ready" /\ ret.op = "dG") =>
        /\ \A i, j \in Nodes :
               /\ RLeq(RZero, ret.Pa[i][j]) /\ RLeq(ret.Pa[i][j], R(1))
               /\ RLeq(RZero, ret.Pb[i][j]) /\ RLeq(ret.Pb[i][j], R(1))
        /\ ~(ret.outcome = "ValueError"
                /\ ret.detail = "p < 0, p > 1 or p is nan")

\* Nb is symmetric and within [0, NMSS] on every edge.
NbSymmetricInRange ==
    /\ \A i, j \in Nodes : Nb[i][j] = Nb[j][i]
    /\ \A i, j \in Nodes :
           W[i][j] = 1 =>
               RLeq(RZero, Nb[i][j]) /\ RLeq(Nb[i][j], NMSS[i][j])

(***************************************************************************)
(* C19: for a symmetric Nb with 0 <= Nb <= NMSS on every edge and          *)
(* probabilities in [0,1], the dNb returned by dG(return_dNb=True) has     *)
(* -Nb <= dNb <= NMSS - Nb on every edge, so Nb + dNb is within [0, NMSS]. *)
(***************************************************************************)
C19_DeltaKeepsNbInRange ==
    (pc = "ready" /\ ret.op = "dG" /\ ret.return_dNb
        /\ ret.outcome = "returned" /\ NbSymmetricInRange) =>
        \A i, j \in Nodes :
            W[i][j] = 1 =>
                /\ RLeq(RSub(RZero, Nb[i][j]), R(ret.value[i][j]))
                /\ RLeq(R(ret.value[i][j]), RSub(NMSS[i][j], Nb[i][j]))

\* dG returned a dNb that empties one edge (dNb = -Nb < 0) and fills
\* another (dNb = NMSS - Nb > 0).
C19_Witness ==
    /\ pc = "ready" /\ ret.op = "dG" /\ ret.return_dNb
    /\ ret.outcome = "returned" /\ NbSymmetricInRange
    /\ \E i, j \in Nodes :
           /\ W[i][j] = 1 /\ ret.value[i][j] < 0
           /\ R(ret.value[i][j]) = RSub(RZero, Nb[i][j])
    /\ \E i, j \in Nodes :
           /\ W[i][j] = 1 /\ ret.value[i][j] > 0
           /\ R(ret.value[i][j]) = RSub(NMSS[i][j], Nb[i][j])

=============================================================================
